---- MODULE Spec2Model ----
(***************************************************************************)
(* Model of the logos-based JSON parser, examples/logos-app/parser.rs.     *)
(*                                                                         *)
(* The parser is a recursive descent over a lazy token stream.  One action *)
(* of the model is one pull of a token (lexer.next()) together with the    *)
(* whole match arm that handles it, including every return it causes in    *)
(* the callers (`?` propagation, array.push, map.insert, the trailing      *)
(* awaits_comma assignment of the loop body).  The recursion of the code   *)
(* is the explicit `stack` of activation frames.                           *)
(***************************************************************************)
EXTENDS Integers, Sequences, FiniteSets, TLC

VARIABLES
    toks,      \* tokens the lexer has yielded so far, in order (the scanned part of the source)
    eof,       \* TRUE once lexer.next() has returned None
    alphabet,  \* the items the source text is made of (fixed with the source)
    stack,     \* activation frames of parse_value / parse_array / parse_object, innermost last
    result,    \* the Result returned by the outermost parse_value, once it has returned
    peer,      \* a second parse by another caller, with its own lexer, frames and result
    proc,      \* a command-line harness process
    scan       \* the tokenizer scanning the characters of one item

vars == <<toks, eof, alphabet, stack, result, peer, proc, scan>>

(***************************************************************************)
(* Bounds                                                                  *)
(***************************************************************************)
\* the longest token stream of a source over all items
MaxLen == 9
\* the longest token stream of a source over the items of MemberItems
MaxMemberLen == 13
\* the longest token stream of each of two sources parsed side by side
MaxPairLen == 4
\* the most characters the tokenizer skips before an item
MaxSkip == 2
\* the most characters of one item the tokenizer scans
MaxText == 8

(***************************************************************************)
(* Tokens.  A token is its kind and its slice (the matched source text).   *)
(* "Error" is the Some(Err(())) item the lexer yields for text that        *)
(* matches no token pattern.                                               *)
(***************************************************************************)
Tok(k, l) == [kind |-> k, lex |-> l]

Token ==
    { Tok("True", "true"), Tok("False", "false"), Tok("Null", "null"),
      Tok("BraceOpen", "{"), Tok("BraceClose", "}"),
      Tok("BracketOpen", "["), Tok("BracketClose", "]"),
      Tok("Colon", ":"), Tok("Comma", ","),
      Tok("Number", "1"), Tok("Number", "1.0"),
      Tok("String", "\"a\""), Tok("String", "\"b\"") }

LexError == { Tok("Error", "@") }

Openers == {"BracketOpen", "BraceOpen"}
Closers == {"BracketClose", "BraceClose"}

\* every item lexer.next() can yield inside Some(..)
Items == Token \cup LexError

\* the items of sources made of objects with true and 1 as the only scalars
\* besides strings
MemberItems ==
    { t \in Token : t.kind \in {"BraceOpen", "BraceClose", "Colon", "Comma", "String"}
                      \/ t.lex \in {"true", "1"} }

\* the items of the sources of two parses run side by side
PairItems ==
    { t \in Items : t.kind \in Openers \cup Closers \cup {"Colon", "Comma", "True", "Error"}
                      \/ t.lex = "\"a\"" }

\* lexer.next() returning None
None == Tok("None", "")

(***************************************************************************)
(* Source layout: the tokens of the text are separated by one blank, so    *)
(* token i occupies the bytes [Start(i), End(i)).                          *)
(***************************************************************************)
RECURSIVE End(_, _)
End(s, i) == IF i = 0 THEN 0 ELSE End(s, i - 1) + (IF i = 1 THEN 0 ELSE 1) + Len(s[i].lex)

Start(s, i) == End(s, i) - Len(s[i].lex)

\* lexer.span(): the span of the last item yielded; the empty span at the
\* cursor before the first pull and after None.
LexerSpan(s, e) ==
    IF s = <<>> \/ e THEN <<End(s, Len(s)), End(s, Len(s))>>
    ELSE <<Start(s, Len(s)), End(s, Len(s))>>

(***************************************************************************)
(* Values                                                                  *)
(***************************************************************************)
Val(t, b, n, l, a, m) == [tag |-> t, b |-> b, num |-> n, lex |-> l, elems |-> a, map |-> m]

VNull      == Val("Null", FALSE, 0, "", <<>>, {})
VBool(b)   == Val("Bool", b, 0, "", <<>>, {})
VNumber(n) == Val("Number", FALSE, n, "", <<>>, {})
VString(l) == Val("String", FALSE, 0, l, <<>>, {})
VArray(a)  == Val("Array", FALSE, 0, "", a, {})
VObject(m) == Val("Object", FALSE, 0, "", <<>>, m)

\* str::parse::<f64> on the number lexemes of the alphabet
ParseF64(l) ==
    CASE l = "1"   -> 1
      [] l = "1.0" -> 1

\* the scalar arms shared by parse_value and parse_array
Scalar(t) ==
    CASE t.kind = "True"   -> VBool(TRUE)
      [] t.kind = "False"  -> VBool(FALSE)
      [] t.kind = "Null"   -> VNull
      [] t.kind = "Number" -> VNumber(ParseF64(t.lex))
      [] t.kind = "String" -> VString(t.lex)

ScalarKinds == {"True", "False", "Null", "Number", "String"}

\* Push putting the new element in front
Push_Front(array, v) == <<v>> \o array

\* Vec::push
Push(array, v) == Append(array, v)

\* Insert keeping the entry already present for the key
Insert_KeepFirst(map, key, v) ==
    IF \E e \in map : e[1] = key THEN map ELSE map \cup { <<key, v>> }

\* HashMap::insert: the map is the set of its <<key, value>> entries
Insert(map, key, v) == { e \in map : e[1] # key } \cup { <<key, v>> }

(***************************************************************************)
(* Results and frames                                                      *)
(***************************************************************************)
NoResult    == [st |-> "none", value |-> <<>>, msg |-> "", span |-> <<0, 0>>]
Ok(v)       == [st |-> "Ok", value |-> <<v>>, msg |-> "", span |-> <<0, 0>>]
Err(m, sp)  == [st |-> "Err", value |-> <<>>, msg |-> m, span |-> sp]

Frame(f, sp) ==
    [fn |-> f, pc |-> "next", span |-> sp,
     awaits_comma |-> FALSE, awaits_value |-> FALSE, awaits_key |-> FALSE,
     array |-> <<>>, map |-> {}, key |-> ""]

Top(stk) == stk[Len(stk)]
Pop(stk) == SubSeq(stk, 1, Len(stk) - 1)
SetTop(stk, f) == [stk EXCEPT ![Len(stk)] = f]

\* the error messages
MsgEmpty     == "empty values are not allowed"
MsgValue     == "unexpected token here (context: value)"
MsgArray     == "unexpected token here (context: array)"
MsgObject    == "unexpected token here (context: object)"
MsgColon     == "unexpected token here, expecting ':'"
MsgBracket   == "unmatched opening bracket defined here"
MsgBrace     == "unmatched opening brace defined here"

\* a configuration of the parser: the frames and the outermost result
Conf(stk, r) == [stack |-> stk, result |-> r]

\* Raise with the error replaced by a default value
Raise_Swallowed(m, sp) == Conf(<<>>, Ok(VNull))

\* `return Err(..)` and its propagation by `?` through every caller
Raise(m, sp) == Conf(<<>>, Err(m, sp))

\* ArrayLoopEnd without the negation
ArrayLoopEnd_NoNegation(f) == [f EXCEPT !.awaits_comma = f.awaits_value, !.pc = "next"]

\* the assignment closing the loop body of parse_array (line 140)
ArrayLoopEnd(f) == [f EXCEPT !.awaits_comma = ~f.awaits_value, !.pc = "next"]

\* ObjectLoopEnd without the negation
ObjectLoopEnd_NoNegation(f) == [f EXCEPT !.awaits_comma = f.awaits_key, !.pc = "next"]

\* the assignment closing the loop body of parse_object (line 181)
ObjectLoopEnd(f) == [f EXCEPT !.awaits_comma = ~f.awaits_key, !.pc = "next"]

\* Return with the outermost caller asking for a further value
Return_Again(stk, v) ==
    IF stk = <<>> THEN Conf(<<Frame("parse_value", <<0, 0>>)>>, NoResult)
    ELSE LET f == Top(stk) IN
         IF f.fn = "parse_array"
         THEN Conf(SetTop(stk, ArrayLoopEnd([f EXCEPT !.array = Push(@, v),
                                                      !.awaits_value = FALSE])),
                   NoResult)
         ELSE Conf(SetTop(stk, ObjectLoopEnd([f EXCEPT !.map = Insert(@, f.key, v),
                                                       !.awaits_key = FALSE])),
                   NoResult)

\* `Ok(v)` returned to the caller whose frame is now the top of stk:
\* the outermost caller, parse_array at its nested call (lines 110-117),
\* or parse_object at its call of parse_value (lines 170-172)
Return(stk, v) ==
    IF stk = <<>> THEN Conf(<<>>, Ok(v))
    ELSE LET f == Top(stk) IN
         IF f.fn = "parse_array"
         THEN Conf(SetTop(stk, ArrayLoopEnd([f EXCEPT !.array = Push(@, v),
                                                      !.awaits_value = FALSE])),
                   NoResult)
         ELSE Conf(SetTop(stk, ObjectLoopEnd([f EXCEPT !.map = Insert(@, f.key, v),
                                                       !.awaits_key = FALSE])),
                   NoResult)

\* Call with the callee taking over the span its caller retained
Call_OuterSpan(stk, fn, sp) ==
    Conf(Append(stk, Frame(fn, IF stk = <<>> THEN sp ELSE Top(stk).span)), NoResult)

\* a callee entered with `[` or `{` just consumed: it retains lexer.span()
Call(stk, fn, sp) == Conf(Append(stk, Frame(fn, sp)), NoResult)

(***************************************************************************)
(* parse_value                                                             *)
(***************************************************************************)
\* ValueArm matching the closing bracket where the opening one is meant
ValueArm_CloseForOpen(k) ==
    CASE k \in ScalarKinds  -> "scalar"
      [] k = "BraceOpen"    -> "object"
      [] k = "BracketClose" -> "array"
      [] OTHER              -> "error"

\* the arm of the match of parse_value taken for an item of kind k
ValueArm(k) ==
    CASE k \in ScalarKinds  -> "scalar"
      [] k = "BraceOpen"    -> "object"
      [] k = "BracketOpen"  -> "array"
      [] OTHER              -> "error"

\* EmptyValue reported through the default arm of the match
EmptyValue_AsUnexpected(sp) == Raise(MsgValue, sp)

\* the else branch of parse_value (line 85): lexer.next() returned None
EmptyValue(sp) == Raise(MsgEmpty, sp)

\* stk: the frames, parse_value's innermost; t: what lexer.next() returned;
\* sp: lexer.span() after that pull
parse_value(stk, t, sp) ==
    IF t = None THEN EmptyValue(sp)
    ELSE LET arm == ValueArm(t.kind) IN
         CASE arm = "scalar" -> Return(Pop(stk), Scalar(t))
           [] arm = "object" -> Call(Pop(stk), "parse_object", sp)
           [] arm = "array"  -> Call(Pop(stk), "parse_array", sp)
           [] arm = "error"  -> Raise(MsgValue, sp)

(***************************************************************************)
(* parse_array                                                             *)
(***************************************************************************)
\* ArrayArm with the guard of the BracketClose arm dropped
ArrayArm_CloseUnguarded(awaits_comma, awaits_value, k) ==
    CASE k \in ScalarKinds /\ ~awaits_comma     -> "scalar"
      [] k = "BraceOpen" /\ ~awaits_comma       -> "object"
      [] k = "BracketOpen" /\ ~awaits_comma     -> "array"
      [] k = "BracketClose"                     -> "close"
      [] k = "Comma" /\ awaits_comma            -> "comma"
      [] OTHER                                  -> "error"

\* the arm of the match of parse_array taken for an item of kind k under
\* the guards on awaits_comma and awaits_value
ArrayArm(awaits_comma, awaits_value, k) ==
    CASE k \in ScalarKinds /\ ~awaits_comma     -> "scalar"
      [] k = "BraceOpen" /\ ~awaits_comma       -> "object"
      [] k = "BracketOpen" /\ ~awaits_comma     -> "array"
      [] k = "BracketClose" /\ ~awaits_value    -> "close"
      [] k = "Comma" /\ awaits_comma            -> "comma"
      [] OTHER                                  -> "error"

\* UnmatchedSpan taking the span of the lexer at the end of the stream
UnmatchedSpan_AtCursor(f, sp) == sp

\* the span of the error raised when the loop of a sub-parser runs out of
\* tokens: the span retained at entry
UnmatchedSpan(f, sp) == f.span

parse_array(stk, t, sp) ==
    LET f == Top(stk) IN
    IF t = None
    THEN Raise(MsgBracket, UnmatchedSpan(f, sp))
    ELSE LET arm == ArrayArm(f.awaits_comma, f.awaits_value, t.kind) IN
         CASE arm = "scalar" ->
                Conf(SetTop(stk, ArrayLoopEnd([f EXCEPT !.array = Push(@, Scalar(t)),
                                                        !.awaits_value = FALSE])),
                     NoResult)
           [] arm = "object" -> Call(SetTop(stk, [f EXCEPT !.pc = "call"]), "parse_object", sp)
           [] arm = "array"  -> Call(SetTop(stk, [f EXCEPT !.pc = "call"]), "parse_array", sp)
           [] arm = "close"  -> Return(Pop(stk), VArray(f.array))
           [] arm = "comma"  ->
                Conf(SetTop(stk, ArrayLoopEnd([f EXCEPT !.awaits_value = TRUE])), NoResult)
           [] arm = "error"  -> Raise(MsgArray, sp)

(***************************************************************************)
(* parse_object                                                            *)
(***************************************************************************)
\* ObjectArm with the guard of the BraceClose arm dropped
ObjectArm_CloseUnguarded(awaits_comma, awaits_key, k) ==
    CASE k = "BraceClose"                   -> "close"
      [] k = "Comma" /\ awaits_comma        -> "comma"
      [] k = "String" /\ ~awaits_comma      -> "key"
      [] OTHER                              -> "error"

\* ObjectArm with the guard of the String arm dropped
ObjectArm_KeyUnguarded(awaits_comma, awaits_key, k) ==
    CASE k = "BraceClose" /\ ~awaits_key    -> "close"
      [] k = "Comma" /\ awaits_comma        -> "comma"
      [] k = "String"                       -> "key"
      [] OTHER                              -> "error"

\* the arm of the match of parse_object taken for an item of kind k under
\* the guards on awaits_comma and awaits_key
ObjectArm(awaits_comma, awaits_key, k) ==
    CASE k = "BraceClose" /\ ~awaits_key    -> "close"
      [] k = "Comma" /\ awaits_comma        -> "comma"
      [] k = "String" /\ ~awaits_comma      -> "key"
      [] OTHER                              -> "error"

\* IsColon taking a comma for the separator as well
IsColon_OrComma(t) == t # None /\ t.kind \in {"Colon", "Comma"}

\* IsColon letting a lexical failure pass as the separator
IsColon_OrLexError(t) == t # None /\ t.kind \in {"Colon", "Error"}

\* the pattern Some(Ok(Token::Colon)) of the inner match (line 162)
IsColon(t) == t # None /\ t.kind = "Colon"

\* the loop head of parse_object (line 155): an item in key position
parse_object(stk, t, sp) ==
    LET f == Top(stk) IN
    IF t = None
    THEN Raise(MsgBrace, UnmatchedSpan(f, sp))
    ELSE LET arm == ObjectArm(f.awaits_comma, f.awaits_key, t.kind) IN
         CASE arm = "close" -> Return(Pop(stk), VObject(f.map))
           [] arm = "comma" ->
                Conf(SetTop(stk, ObjectLoopEnd([f EXCEPT !.awaits_key = TRUE])), NoResult)
           [] arm = "key"   -> Conf(SetTop(stk, [f EXCEPT !.key = t.lex, !.pc = "colon"]), NoResult)
           [] arm = "error" -> Raise(MsgObject, sp)

\* the inner match of parse_object (lines 161-170): the item after a key,
\* and the entry into parse_value for the member's value
parse_object_colon(stk, t, sp) ==
    LET f == Top(stk) IN
    IF IsColon(t)
    THEN Call(SetTop(stk, [f EXCEPT !.pc = "value"]), "parse_value", sp)
    ELSE Raise(MsgColon, sp)

\* the handler that pulls next when stk is the stack: the function of the
\* innermost frame, at its program point
Handle(stk, t, sp) ==
    LET f == Top(stk) IN
    CASE f.fn = "parse_value"  -> parse_value(stk, t, sp)
      [] f.fn = "parse_array"  -> parse_array(stk, t, sp)
      [] f.fn = "parse_object" /\ f.pc = "next"  -> parse_object(stk, t, sp)
      [] f.fn = "parse_object" /\ f.pc = "colon" -> parse_object_colon(stk, t, sp)

(***************************************************************************)
(* The lexer and the actions                                               *)
(***************************************************************************)
\* the length bound of the source, by the items it is made of
Limit ==
    IF alphabet = Items THEN MaxLen
    ELSE IF alphabet = MemberItems THEN MaxMemberLen
    ELSE MaxPairLen

\* what lexer.next() can return at the cursor: the next item of the source,
\* or None at its end
Yield == {None} \cup (IF Len(toks) < Limit THEN alphabet ELSE {})

Running == stack # <<>> /\ result.st = "none"

\* Scanned with the separator looked at but left in the stream
Scanned_PeekComma(t) == IF t = None \/ t.kind = "Comma" THEN toks ELSE Append(toks, t)

\* the items scanned once lexer.next() has returned t
Scanned(t) == IF t = None THEN toks ELSE Append(toks, t)

\* lexer.span() once lexer.next() has returned t
SpanAfter(t) == LexerSpan(Scanned(t), t = None)

\* one pull: the lexer advances over t and the handler leaves configuration c
Pull(t, c) ==
    /\ toks' = Scanned(t)
    /\ eof' = (t = None)
    /\ stack' = c.stack
    /\ result' = c.result
    /\ UNCHANGED <<alphabet, peer, proc, scan>>

ParseValue ==
    /\ Running /\ Top(stack).fn = "parse_value"
    /\ \E t \in Yield : Pull(t, parse_value(stack, t, SpanAfter(t)))

ParseArray ==
    /\ Running /\ Top(stack).fn = "parse_array"
    /\ \E t \in Yield : Pull(t, parse_array(stack, t, SpanAfter(t)))

ParseObject ==
    /\ Running /\ Top(stack).fn = "parse_object" /\ Top(stack).pc = "next"
    /\ \E t \in Yield : Pull(t, parse_object(stack, t, SpanAfter(t)))

ParseObjectColon ==
    /\ Running /\ Top(stack).fn = "parse_object" /\ Top(stack).pc = "colon"
    /\ \E t \in Yield : Pull(t, parse_object_colon(stack, t, SpanAfter(t)))

\* no second parse, no harness process, no scan
NoPeer == [toks |-> <<>>, eof |-> FALSE, stack |-> <<>>, result |-> NoResult]
NoProc == [app |-> "", pc |-> "", arg |-> FALSE, readable |-> FALSE, outcome |-> "",
           stderr |-> FALSE, status |-> -1]
NoScan == [start |-> 0, slice |-> <<>>, nfa |-> {}, out |-> "", last |-> "", skipped |-> FALSE]

\* a fresh lexer over the source and the outermost call of parse_value
Init ==
    /\ toks = <<>>
    /\ eof = FALSE
    /\ alphabet \in {Items, MemberItems}
    /\ stack = <<Frame("parse_value", <<0, 0>>)>>
    /\ result = NoResult
    /\ peer = NoPeer /\ proc = NoProc /\ scan = NoScan

Next == ParseValue \/ ParseArray \/ ParseObject \/ ParseObjectColon

Spec == Init /\ [][Next]_vars

\* the parse runs to completion on the calling thread: a handler that can
\* pull does pull
SpecLive == Spec /\ WF_vars(Next)

(***************************************************************************)
(* Two parses of independent sources by independent callers, their steps   *)
(* interleaved.  The second parse is the same code (Handle) over its own   *)
(* lexer, frames and result, kept in `peer`.                               *)
(***************************************************************************)
PeerRunning == peer.stack # <<>> /\ peer.result.st = "none"

\* what the lexer of the second parse can return at its cursor
PeerYield == {None} \cup (IF Len(peer.toks) < Limit THEN alphabet ELSE {})

\* the second parse after its lexer has returned t
PeerPull(t) ==
    LET s == IF t = None THEN peer.toks ELSE Append(peer.toks, t)
        c == Handle(peer.stack, t, LexerSpan(s, t = None))
    IN  [toks |-> s, eof |-> (t = None), stack |-> c.stack, result |-> c.result]

\* PeerFrame with the two parses over one lexer: a pull of the second moves
\* the cursor of the first
PeerFrame_SharedLexer ==
    /\ toks' = peer'.toks
    /\ UNCHANGED <<eof, alphabet, stack, result, proc, scan>>

\* what a step of the second parse leaves alone: all state of the first
PeerFrame == UNCHANGED <<toks, eof, alphabet, stack, result, proc, scan>>

PeerStep ==
    /\ PeerRunning
    /\ \E t \in PeerYield : peer' = PeerPull(t)
    /\ PeerFrame

InitPair ==
    /\ toks = <<>>
    /\ eof = FALSE
    /\ alphabet = PairItems
    /\ stack = <<Frame("parse_value", <<0, 0>>)>>
    /\ result = NoResult
    /\ peer = [NoPeer EXCEPT !.stack = <<Frame("parse_value", <<0, 0>>)>>]
    /\ proc = NoProc /\ scan = NoScan

NextPair == ParseValue \/ ParseArray \/ ParseObject \/ ParseObjectColon \/ PeerStep

SpecPair == InitPair /\ [][NextPair]_vars

(***************************************************************************)
(* Reference notions over the token sequence alone, used to state the      *)
(* properties: the JSON grammar, the open containers, the positions.       *)
(***************************************************************************)
Kind(s, i) == s[i].kind
SpanOf(s, i) == <<Start(s, i), End(s, i)>>
EndSpan(s) == <<End(s, Len(s)), End(s, Len(s))>>

ValueStart == ScalarKinds \cup Openers

RefOk(j) == [st |-> "ok", end |-> j]
RefMore  == [st |-> "more", end |-> 0]
RefBad   == [st |-> "bad", end |-> 0]

\* The grammar
\*   value = True | False | Null | Number | String
\*         | '[' ']' | '[' value (',' value)* ']'
\*         | '{' '}' | '{' String ':' value (',' String ':' value)* '}'
\* RefValue(s, i) is "ok" with the index after the value that starts at
\* s[i], "more" when s ends inside a value that could still be completed,
\* and "bad" when no continuation of s has a value starting at s[i].
RECURSIVE RefValue(_, _), RefElems(_, _), RefMembers(_, _)
RefValue(s, i) ==
    IF i > Len(s) THEN RefMore
    ELSE CASE Kind(s, i) \in ScalarKinds -> RefOk(i + 1)
           [] Kind(s, i) = "BracketOpen" ->
                IF i + 1 <= Len(s) /\ Kind(s, i + 1) = "BracketClose"
                THEN RefOk(i + 2) ELSE RefElems(s, i + 1)
           [] Kind(s, i) = "BraceOpen" ->
                IF i + 1 <= Len(s) /\ Kind(s, i + 1) = "BraceClose"
                THEN RefOk(i + 2) ELSE RefMembers(s, i + 1)
           [] OTHER -> RefBad

\* value (',' value)* ']'
RefElems(s, i) ==
    LET r == RefValue(s, i) IN
    IF r.st # "ok" THEN r
    ELSE IF r.end > Len(s) THEN RefMore
    ELSE IF Kind(s, r.end) = "Comma" THEN RefElems(s, r.end + 1)
    ELSE IF Kind(s, r.end) = "BracketClose" THEN RefOk(r.end + 1)
    ELSE RefBad

\* String ':' value (',' String ':' value)* '}'
RefMembers(s, i) ==
    IF i > Len(s) THEN RefMore
    ELSE IF Kind(s, i) # "String" THEN RefBad
    ELSE IF i + 1 > Len(s) THEN RefMore
    ELSE IF Kind(s, i + 1) # "Colon" THEN RefBad
    ELSE LET r == RefValue(s, i + 2) IN
         IF r.st # "ok" THEN r
         ELSE IF r.end > Len(s) THEN RefMore
         ELSE IF Kind(s, r.end) = "Comma" THEN RefMembers(s, r.end + 1)
         ELSE IF Kind(s, r.end) = "BraceClose" THEN RefOk(r.end + 1)
         ELSE RefBad

\* the indices of the opening delimiters still unclosed after the first m
\* tokens of s, outermost first
RECURSIVE Open(_, _)
Open(s, m) ==
    IF m = 0 THEN <<>>
    ELSE LET o == Open(s, m - 1) IN
         IF Kind(s, m) \in Openers THEN Append(o, m)
         ELSE IF Kind(s, m) \in Closers /\ o # <<>> THEN Pop(o)
         ELSE o

\* after the first m tokens the innermost unclosed container is an array / an object
InArray(s, m)  == m >= 1 /\ Open(s, m) # <<>> /\ Kind(s, Top(Open(s, m))) = "BracketOpen"
InObject(s, m) == m >= 1 /\ Open(s, m) # <<>> /\ Kind(s, Top(Open(s, m))) = "BraceOpen"

\* s[m] is an object key: a String directly after '{' or after a comma of the object
IsKey(s, m) ==
    /\ m >= 2 /\ InObject(s, m) /\ Kind(s, m) = "String"
    /\ Kind(s, m - 1) \in {"BraceOpen", "Comma"}

\* s[m] ends a key/value pair of the object that is innermost after m tokens
PairDone(s, m) ==
    /\ m >= 4 /\ InObject(s, m)
    /\ \/ Kind(s, m) \in Closers
       \/ Kind(s, m) \in ScalarKinds /\ Kind(s, m - 1) = "Colon"

\* s[m] ends an element of the array that is innermost after m tokens
ElementDone(s, m) ==
    /\ m >= 2 /\ InArray(s, m)
    /\ Kind(s, m) \in ScalarKinds \cup Closers

\* the next token after the first m is in key position of an object
KeyPosition(s, m) ==
    /\ InObject(s, m)
    /\ Kind(s, m) \in {"BraceOpen", "Comma"} \/ PairDone(s, m)

\* the next token after the first m is where parse_value pulls its token
ValuePosition(s, m) == m = 0 \/ Kind(s, m) = "Colon"

Done == result.st # "none"
IsErr(m, sp) == result = Err(m, sp)
N == Len(toks)

(***************************************************************************)
(* Properties                                                              *)
(***************************************************************************)
\* C1: the parse returns Ok exactly when the token sequence starts with one
\* well-formed value of the reference grammar: it returns Ok only once the
\* tokens pulled are such a value, it returns Err only when no sequence
\* starting with the tokens pulled starts with a value (or the stream ended
\* inside one), and it has returned as soon as either is decided.
C1_AcceptsExactlyGrammar ==
    LET r == RefValue(toks, 1) IN
    /\ result.st = "Ok" <=> r.st = "ok"
    /\ result.st = "Ok" => r.end = N + 1
    /\ result.st = "Err" /\ ~eof => r.st = "bad"
    /\ result.st = "Err" /\ eof => r.st = "more"
    /\ result.st = "none" => r.st = "more" /\ ~eof

C1_Witness ==
    /\ result.st = "Ok" /\ N >= 7
    /\ \E i, j \in 1..N : Kind(toks, i) = "BraceOpen" /\ Kind(toks, j) = "BracketOpen"

\* C2: inside an array, at any depth, a comma directly after '[', a comma
\* directly after a comma, a ']' directly after a comma, and a value-starting
\* token directly after a completed element each fail with the array-context
\* error spanning that token.
C2_Offence(s, n) ==
    /\ n >= 2 /\ InArray(s, n - 1)
    /\ \/ Kind(s, n - 1) = "BracketOpen" /\ Kind(s, n) = "Comma"
       \/ Kind(s, n - 1) = "Comma" /\ Kind(s, n) = "Comma"
       \/ Kind(s, n - 1) = "Comma" /\ Kind(s, n) = "BracketClose"
       \/ ElementDone(s, n - 1) /\ Kind(s, n) \in ValueStart

C2_ArraySeparators == C2_Offence(toks, N) => IsErr(MsgArray, SpanOf(toks, N))

C2_Witness ==
    /\ C2_Offence(toks, N) /\ Len(Open(toks, N - 1)) >= 2
    /\ Kind(toks, N - 1) = "Comma" /\ Kind(toks, N) = "BracketClose"
    /\ IsErr(MsgArray, SpanOf(toks, N))

\* C3: in key position of an object, a comma directly after '{', a comma
\* directly after a comma, a '}' directly after a comma, a String directly
\* after a completed pair, and any token other than String, Comma and '}'
\* each fail with the object-context error spanning that token; so '}' is
\* taken only directly after '{' or after a completed pair.
C3_Offence(s, n) ==
    /\ n >= 2 /\ KeyPosition(s, n - 1)
    /\ \/ Kind(s, n - 1) = "BraceOpen" /\ Kind(s, n) = "Comma"
       \/ Kind(s, n - 1) = "Comma" /\ Kind(s, n) \in {"Comma", "BraceClose"}
       \/ PairDone(s, n - 1) /\ Kind(s, n) = "String"
       \/ Kind(s, n) \notin {"String", "Comma", "BraceClose"}

C3_ObjectSeparators ==
    /\ C3_Offence(toks, N) => IsErr(MsgObject, SpanOf(toks, N))
    /\ N >= 2 /\ KeyPosition(toks, N - 1) /\ Kind(toks, N) = "BraceClose" /\ result.st # "Err"
         => Kind(toks, N - 1) = "BraceOpen" \/ PairDone(toks, N - 1)

C3_Witness ==
    /\ C3_Offence(toks, N) /\ PairDone(toks, N - 1) /\ Kind(toks, N) = "String"
    /\ IsErr(MsgObject, SpanOf(toks, N))

\* the innermost container unclosed after all tokens pulled
Innermost == Top(Open(toks, N))
UnmatchedMsg(i) == IF Kind(toks, i) = "BracketOpen" THEN MsgBracket ELSE MsgBrace

\* C4 as stated: wherever inside an open container the stream ends, the
\* parse fails with the unmatched-opening error of an unclosed container,
\* spanning that container's opening delimiter.
C4_Original ==
    eof /\ Open(toks, N) # <<>> =>
        \E k \in 1..Len(Open(toks, N)) :
            IsErr(UnmatchedMsg(Open(toks, N)[k]), SpanOf(toks, Open(toks, N)[k]))

\* C4 (amended): when the stream ends at the loop head of a sub-parser
\* (directly after '[' or '{', after a completed element or key/value pair,
\* after a comma) the parse fails with the unmatched-opening error spanning
\* the opening delimiter of the innermost unclosed container, never the
\* end-of-stream span; when it ends directly after an object key the error
\* is the expecting-':' error, and directly after a key's colon the
\* empty-value error, both at the empty trailing span.
C4_Unterminated ==
    eof /\ Open(toks, N) # <<>> =>
        IF IsKey(toks, N) THEN IsErr(MsgColon, EndSpan(toks))
        ELSE IF Kind(toks, N) = "Colon" THEN IsErr(MsgEmpty, EndSpan(toks))
        ELSE /\ IsErr(UnmatchedMsg(Innermost), SpanOf(toks, Innermost))
             /\ result.span # EndSpan(toks)

C4_Witness ==
    /\ eof /\ Len(Open(toks, N)) >= 2 /\ Kind(toks, N) = "Comma"
    /\ Kind(toks, Innermost) = "BraceOpen"
    /\ IsErr(MsgBrace, SpanOf(toks, Innermost))

\* C5: the item pulled directly after an object key must be Colon; any
\* other item fails with the expecting-':' error spanning that item, and the
\* end of the stream fails with it at the empty trailing span; no call of
\* parse_value is made and no frame (so no map entry) survives.
C5_ColonRequired ==
    /\ N >= 3 /\ IsKey(toks, N - 1) /\ Kind(toks, N) # "Colon"
         => IsErr(MsgColon, SpanOf(toks, N)) /\ stack = <<>>
    /\ IsKey(toks, N) /\ eof
         => IsErr(MsgColon, EndSpan(toks)) /\ stack = <<>>

C5_Witness ==
    /\ N >= 7 /\ IsKey(toks, N - 1) /\ Kind(toks, N) \in ValueStart
    /\ IsErr(MsgColon, SpanOf(toks, N)) /\ stack = <<>>

\* C6: parse_value entered at the end of the stream (empty input, or the
\* stream ending right after a key's colon) fails with the empty-value
\* error at the empty span at the cursor, which is <<0, 0>> for the empty
\* source.
C6_EmptyValue ==
    eof /\ ValuePosition(toks, N) =>
        /\ IsErr(MsgEmpty, EndSpan(toks))
        /\ N = 0 => result.span = <<0, 0>>

C6_Witness ==
    /\ eof /\ N >= 3 /\ Kind(toks, N) = "Colon"
    /\ IsErr(MsgEmpty, EndSpan(toks)) /\ result.span[1] > 0

\* C7: a '}', ']', ':' or ',' pulled by parse_value, at top level or for an
\* object member's value, fails with the value-context error spanning
\* exactly that token.
C7_UnexpectedInValue ==
    /\ N >= 1 /\ ValuePosition(toks, N - 1)
    /\ Kind(toks, N) \in {"BraceClose", "BracketClose", "Colon", "Comma"}
    => IsErr(MsgValue, SpanOf(toks, N))

C7_Witness ==
    /\ N >= 4 /\ Kind(toks, N - 1) = "Colon" /\ Kind(toks, N) = "BracketClose"
    /\ IsErr(MsgValue, SpanOf(toks, N))

\* the error a structurally invalid token gets at the position after the
\* first m tokens
PositionMsg(s, m) ==
    CASE ValuePosition(s, m) -> MsgValue
      [] m >= 1 /\ ~ValuePosition(s, m) /\ InArray(s, m) -> MsgArray
      [] m >= 1 /\ ~ValuePosition(s, m) /\ IsKey(s, m) -> MsgColon
      [] m >= 1 /\ ~ValuePosition(s, m) /\ ~IsKey(s, m) /\ KeyPosition(s, m) -> MsgObject
      [] OTHER -> ""

\* C8: a lexical failure is never skipped: wherever it is yielded the
\* parse returns Err with the error of that position (value, array, object
\* key position, expecting ':') spanning the offending text.
C8_LexicalFailure ==
    N >= 1 /\ Kind(toks, N) = "Error" =>
        IsErr(PositionMsg(toks, N - 1), SpanOf(toks, N))

C8_Witness ==
    /\ N >= 3 /\ Kind(toks, N) = "Error" /\ IsKey(toks, N - 1)
    /\ IsErr(MsgColon, SpanOf(toks, N))

(***************************************************************************)
(* The value a well-formed token range denotes, defined by cutting a       *)
(* container at the commas of its own nesting level.                       *)
(***************************************************************************)
\* openers minus closers among s[a..p-1]
Depth(s, a, p) ==
    Cardinality({q \in a..(p - 1) : Kind(s, q) \in Openers})
      - Cardinality({q \in a..(p - 1) : Kind(s, q) \in Closers})

\* the closing delimiter matching the opener s[i]
Match(s, i) ==
    CHOOSE j \in (i + 1)..Len(s) :
        /\ Depth(s, i, j + 1) = 0
        /\ \A q \in (i + 1)..(j - 1) : Depth(s, i, q + 1) > 0

\* the commas of the container s[i..j] at its own nesting level
TopCommas(s, i, j) ==
    {p \in (i + 1)..(j - 1) : Kind(s, p) = "Comma" /\ Depth(s, i + 1, p) = 0}

\* the token ranges <<first, last>> of the elements (members) of the
\* container s[i..j], in order of occurrence
Parts(s, i, j) ==
    IF j = i + 1 THEN <<>>
    ELSE LET B == {i, j} \cup TopCommas(s, i, j)
             Cut == {c \in B \X B : c[1] < c[2] /\ ~\E x \in B : c[1] < x /\ x < c[2]}
         IN  [k \in 1..(Cardinality(B) - 1) |->
                LET c == CHOOSE c \in Cut : Cardinality({x \in B : x < c[1]}) = k - 1
                IN  <<c[1] + 1, c[2] - 1>>]

RECURSIVE Denote(_, _, _)
Denote(s, i, j) ==
    LET P == Parts(s, i, j) IN
    CASE Kind(s, i) \in ScalarKinds -> Scalar(s[i])
      [] Kind(s, i) = "BracketOpen" ->
            VArray([k \in 1..Len(P) |-> Denote(s, P[k][1], P[k][2])])
      [] Kind(s, i) = "BraceOpen" ->
            VObject({ <<s[P[k][1]].lex, Denote(s, P[k][1] + 2, P[k][2])>> :
                      k \in {k \in 1..Len(P) :
                               \A l \in (k + 1)..Len(P) : s[P[l][1]].lex # s[P[k][1]].lex} })

\* every value of the tree v
RECURSIVE SubValues(_)
SubValues(v) ==
    {v} \cup UNION {SubValues(v.elems[k]) : k \in 1..Len(v.elems)}
        \cup UNION {SubValues(e[2]) : e \in v.map}

\* the containers of the source: opener kind k at i, closed at Match
Containers(s, k) == {i \in 1..Len(s) : Kind(s, i) = k}

\* C9: a parsed object has exactly one entry per distinct key lexeme of
\* its members, and each key maps to the value of the last member with that
\* key; this holds of the outermost object, and every object in the tree
\* is such a mapping for an object of the source.
C9_LastKeyWins ==
    result.st = "Ok" =>
        LET v == result.value[1]
            P == Parts(toks, 1, N)
            keys == {toks[P[k][1]].lex : k \in 1..Len(P)}
        IN  /\ Kind(toks, 1) = "BraceOpen" =>
                /\ v.tag = "Object"
                /\ {e[1] : e \in v.map} = keys
                /\ Cardinality(v.map) = Cardinality(keys)
                /\ \A k \in 1..Len(P) :
                      (\A l \in (k + 1)..Len(P) : toks[P[l][1]].lex # toks[P[k][1]].lex)
                        => <<toks[P[k][1]].lex, Denote(toks, P[k][1] + 2, P[k][2])>> \in v.map
            /\ {o.map : o \in {x \in SubValues(v) : x.tag = "Object"}}
                 \subseteq {Denote(toks, i, Match(toks, i)).map : i \in Containers(toks, "BraceOpen")}

\* three members, the first and the third with the same key and different values
C9_Witness ==
    /\ result.st = "Ok" /\ N = 13 /\ Kind(toks, 1) = "BraceOpen"
    /\ Len(Parts(toks, 1, N)) = 3
    /\ toks[2].lex = toks[10].lex /\ toks[2].lex # toks[6].lex /\ toks[4] # toks[12]
    /\ result.value[1].map = {<<toks[6].lex, Scalar(toks[8])>>, <<toks[10].lex, Scalar(toks[12])>>}

\* C10: a parsed array has as many elements as there are element ranges
\* between its brackets at its own nesting level, its i-th element is the
\* value of the i-th range, and '[' ']' gives the empty sequence; this holds
\* of the outermost array, and every array in the tree is such a sequence for
\* an array of the source.
C10_ArrayOrder ==
    result.st = "Ok" =>
        LET v == result.value[1]
            P == Parts(toks, 1, N)
        IN  /\ Kind(toks, 1) = "BracketOpen" =>
                /\ v.tag = "Array"
                /\ Len(v.elems) = Len(P)
                /\ \A k \in 1..Len(P) : v.elems[k] = Denote(toks, P[k][1], P[k][2])
                /\ N = 2 => v.elems = <<>>
            /\ {a.elems : a \in {x \in SubValues(v) : x.tag = "Array"}}
                 \subseteq {Denote(toks, i, Match(toks, i)).elems : i \in Containers(toks, "BracketOpen")}

C10_Witness ==
    /\ result.st = "Ok" /\ Kind(toks, 1) = "BracketOpen"
    /\ Len(result.value[1].elems) = 3
    /\ result.value[1].elems[1].tag = "Array"
    /\ result.value[1].elems[2] # result.value[1].elems[3]

\* the first m tokens pulled
Prefix(m) == SubSeq(toks, 1, m)

\* C11: a successful parse has pulled exactly the tokens of one value:
\* it returns Ok as soon as the tokens pulled are a value of the grammar,
\* no shorter prefix is one, no item after the value has been pulled (not
\* even the end of the stream), and the value returned is the one those
\* tokens denote, whatever the source holds after them.
C11_ConsumesOneValue ==
    LET r == RefValue(toks, 1) IN
    /\ r.st = "ok" => result.st = "Ok"
    /\ result.st = "Ok" =>
         /\ r = RefOk(N + 1) /\ ~eof /\ Open(toks, N) = <<>>
         /\ \A m \in 0..(N - 1) : RefValue(Prefix(m), 1).st = "more"
         /\ result.value[1] = Denote(toks, 1, N)

\* a container value returned while the source could go on
C11_Witness ==
    /\ result.st = "Ok" /\ N >= 5 /\ N < Limit /\ ~eof
    /\ Kind(toks, 1) = "BracketOpen" /\ Kind(toks, N) = "BracketClose"

\* the item of the last pull
LastItem(s, e) == IF e THEN None ELSE s[Len(s)]

\* C12: the first error is fatal.  A parse that has failed holds no frame
\* and no value, it failed at the first item no value can continue with
\* (or at the end of the stream), such an item always fails the parse, the
\* error returned is the one the innermost function raised, unchanged by
\* its callers, and no item is pulled after it.
C12_State ==
    /\ result.st = "Err" =>
         /\ stack = <<>> /\ result.value = <<>>
         /\ eof \/ RefValue(toks, 1).st = "bad"
         /\ \A m \in 0..(N - 1) : RefValue(Prefix(m), 1).st = "more"
    /\ eof \/ RefValue(toks, 1).st = "bad" => result.st = "Err"

C12_Step ==
    /\ result.st # "Err"
    /\ result'.st = "Err" =>
         result' = Handle(<<Top(stack)>>, LastItem(toks', eof'), LexerSpan(toks', eof')).result

C12_FirstErrorFatal == [](C12_State) /\ [][C12_Step]_vars

\* an error raised three calls deep
C12_Witness ==
    /\ result.st = "Err" /\ stack = <<>> /\ ~eof
    /\ Len(Open(toks, N - 1)) >= 3 /\ result.span = SpanOf(toks, N)

(***************************************************************************)
(* The three-state machine of the design notes, for one container.         *)
(***************************************************************************)
State3 == {"AwaitingFirstValueOrClose", "AwaitingCommaOrClose", "AwaitingValueAfterComma"}

\* the flag a frame keeps besides awaits_comma
Pending(f) == IF f.fn = "parse_array" THEN f.awaits_value ELSE f.awaits_key

\* the mapping from the two flags to the three states
Map3(f) ==
    CASE ~Pending(f) /\ ~f.awaits_comma -> "AwaitingFirstValueOrClose"
      [] ~Pending(f) /\ f.awaits_comma  -> "AwaitingCommaOrClose"
      [] Pending(f) /\ ~f.awaits_comma  -> "AwaitingValueAfterComma"
      [] OTHER                          -> "unmapped"

\* what an item of kind k is to the container run by function fn
Class3(fn, k) ==
    IF fn = "parse_array"
    THEN CASE k \in ValueStart     -> "value"
           [] k = "BracketClose"   -> "close"
           [] k = "Comma"          -> "comma"
           [] OTHER                -> "other"
    ELSE CASE k = "String"         -> "value"
           [] k = "BraceClose"     -> "close"
           [] k = "Comma"          -> "comma"
           [] OTHER                -> "other"

\* the transition table: the next state, "accept" (the container is
\* closed) or "reject"
Step3(q, c) ==
    CASE q = "AwaitingFirstValueOrClose" /\ c = "value" -> "AwaitingCommaOrClose"
      [] q = "AwaitingFirstValueOrClose" /\ c = "close" -> "accept"
      [] q = "AwaitingCommaOrClose" /\ c = "comma"      -> "AwaitingValueAfterComma"
      [] q = "AwaitingCommaOrClose" /\ c = "close"      -> "accept"
      [] q = "AwaitingValueAfterComma" /\ c = "value"   -> "AwaitingCommaOrClose"
      [] OTHER                                          -> "reject"

IsContainer(f) == f.fn # "parse_value"
AtLoopHead(f) == IsContainer(f) /\ f.pc = "next"

\* C17: run side by side on every token stream, the two flags of every
\* container frame and the three-state machine agree under the mapping: the
\* flags always map to a state; an item is rejected by the code exactly when
\* the table rejects it, it ends the container exactly when the table
\* accepts, and otherwise the flags after the item (for a nested value or a
\* member: after its value has been returned) map to the table's next state.
C17_Mapped == \A k \in 1..Len(stack) : IsContainer(stack[k]) => Map3(stack[k]) \in State3

C17_Step ==
    LET n == Len(stack)
        f == Top(stack)
        t == LastItem(toks', eof')
        o == Step3(Map3(f), Class3(f.fn, t.kind))
        m == Len(stack')
    IN  /\ AtLoopHead(f) /\ t # None =>
            /\ o = "reject" <=> result'.st = "Err"
            /\ o = "accept" <=> result'.st # "Err" /\ m < n
            /\ o \in State3 /\ m = n /\ AtLoopHead(stack'[n]) => Map3(stack'[n]) = o
        /\ m < n /\ m > 0 /\ result'.st = "none" =>
            /\ AtLoopHead(stack'[m])
            /\ Map3(stack'[m]) = Step3(Map3(stack[m]), "value")

C17_ThreeStates == [](C17_Mapped) /\ [][C17_Step]_vars

\* an array two containers deep that has just taken a comma after an element
C17_Witness ==
    /\ Running /\ Len(stack) >= 2 /\ Top(stack).fn = "parse_array" /\ AtLoopHead(Top(stack))
    /\ Map3(Top(stack)) = "AwaitingValueAfterComma" /\ Len(Top(stack).array) >= 1
    /\ Map3(stack[1]) = "AwaitingFirstValueOrClose"

\* C18: in every frame of parse_array and parse_object the two flags are
\* never both true; they are both false as long as the frame has completed
\* no iteration of its loop (it holds no element or entry yet), and from the
\* first completed iteration on awaits_comma is the negation of
\* awaits_value (awaits_key).
C18_Complement ==
    \A k \in 1..Len(stack) :
        LET f == stack[k]
            fresh == IF f.fn = "parse_array" THEN f.array = <<>> ELSE f.map = {}
        IN  IsContainer(f) =>
              /\ ~(f.awaits_comma /\ Pending(f))
              /\ IF fresh THEN ~f.awaits_comma /\ ~Pending(f)
                 ELSE f.awaits_comma = ~Pending(f)
              /\ k = Len(stack) /\ f.pc = "next" =>
                   (fresh <=> Kind(toks, N) \in Openers)

\* an object awaiting a key after a comma, inside an array that took a comma
\* before it
C18_Witness ==
    /\ Running /\ Len(stack) >= 2
    /\ stack[Len(stack) - 1].fn = "parse_array"
    /\ stack[Len(stack) - 1].awaits_value /\ ~stack[Len(stack) - 1].awaits_comma
    /\ Top(stack).fn = "parse_object" /\ Top(stack).awaits_key /\ ~Top(stack).awaits_comma
    /\ Top(stack).pc = "next"

\* the frames of parse_array and parse_object, outermost first
ContainerFrames == SelectSeq(stack, IsContainer)

\* C20: the span a sub-parser retains at entry is the span of its own
\* opening delimiter and stays so whatever is parsed inside it; so when the
\* stream runs out at the loop head of a sub-parser with several containers
\* open, the error spans the opening delimiter of the innermost of them, not
\* of the outermost.
C20_InnermostSpan ==
    /\ Running =>
         /\ Len(ContainerFrames) = Len(Open(toks, N))
         /\ \A k \in 1..Len(ContainerFrames) :
              ContainerFrames[k].span = SpanOf(toks, Open(toks, N)[k])
    /\ eof /\ Len(Open(toks, N)) >= 2 /\ ~IsKey(toks, N) /\ Kind(toks, N) # "Colon" =>
         /\ result.st = "Err"
         /\ result.msg = UnmatchedMsg(Innermost)
         /\ result.span = SpanOf(toks, Innermost)
         /\ result.span # SpanOf(toks, Open(toks, N)[1])

\* the stream ends after an element of an array inside an object inside an array
C20_Witness ==
    /\ eof /\ Len(Open(toks, N)) >= 3 /\ ElementDone(toks, N)
    /\ Kind(toks, Open(toks, N)[1]) = "BracketOpen"
    /\ result = Err(MsgBracket, SpanOf(toks, Innermost))

\* the number of pulls made: the items yielded and the final None
Pulls(s, e) == Len(s) + (IF e THEN 1 ELSE 0)

\* the closing delimiter of the container run by function fn
Closer(fn) == IF fn = "parse_array" THEN "BracketClose" ELSE "BraceClose"

\* C19: every parse terminates with Ok or Err.  Every step of a handler
\* pulls exactly one item, after the ones pulled before and never after the
\* end of the stream, so no item is read twice; a frame is left only by an
\* error or the end of the stream, by parse_value returning its value, or by
\* a sub-parser pulling its own closing delimiter; and with the stream
\* finite the parse reaches its result.
C19_Step ==
    /\ ~eof /\ result.st = "none"
    /\ Pulls(toks', eof') = Pulls(toks, eof) + 1
    /\ SubSeq(toks', 1, N) = toks
    /\ Len(stack') < Len(stack) /\ result'.st # "Err" =>
         /\ Len(stack') = Len(stack) - 1
         /\ \/ Top(stack).fn = "parse_value"
            \/ ~eof' /\ Kind(toks', N + 1) = Closer(Top(stack).fn)

C19_Terminates == [][C19_Step]_vars /\ <>(result.st # "none" /\ stack = <<>>)

\* a parse that ended after as many pulls as the source allows
C19_Witness == result.st # "none" /\ stack = <<>> /\ Pulls(toks, eof) >= 9

(***************************************************************************)
(* The command-line harnesses.  Each main reads the file named by its      *)
(* first argument, hands the text to its parsing backend and matches on    *)
(* the Result.  The backend is external: its Result is an input.           *)
(***************************************************************************)
Apps == {"serde-json-app", "lalrpop-app", "yap-app", "pom-app"}

\* after eprintln! in the Err arm: serde-json-app leaves the match and
\* returns Ok(()) from main, the others call std::process::exit(1)
ErrArmExits(app) == app # "serde-json-app"

\* env::args().nth(1).expect("Expected file argument")
HarnessArgs ==
    /\ proc.pc = "args"
    /\ proc' = [proc EXCEPT !.pc = IF proc.arg THEN "read" ELSE "panic"]
    /\ UNCHANGED <<toks, eof, alphabet, stack, result, peer, scan>>

\* fs::read_to_string(..).expect("Failed to read file")
HarnessRead ==
    /\ proc.pc = "read"
    /\ proc' = [proc EXCEPT !.pc = IF proc.readable THEN "parse" ELSE "panic"]
    /\ UNCHANGED <<toks, eof, alphabet, stack, result, peer, scan>>

\* a failed expect panics: the message goes to standard error and the
\* process ends with the status of a panic
HarnessPanic ==
    /\ proc.pc = "panic"
    /\ proc' = [proc EXCEPT !.pc = "done", !.stderr = TRUE, !.status = 101]
    /\ UNCHANGED <<toks, eof, alphabet, stack, result, peer, scan>>

\* match <backend>(&src)
HarnessParse ==
    /\ proc.pc = "parse"
    /\ proc' = [proc EXCEPT !.pc = IF proc.outcome = "Ok" THEN "ok_arm" ELSE "err_arm"]
    /\ UNCHANGED <<toks, eof, alphabet, stack, result, peer, scan>>

\* Ok(value) => { std::hint::black_box(value); }
HarnessOk ==
    /\ proc.pc = "ok_arm"
    /\ proc' = [proc EXCEPT !.pc = "end"]
    /\ UNCHANGED <<toks, eof, alphabet, stack, result, peer, scan>>

\* Err(e) => eprintln!(..), and std::process::exit(1) where the arm has it
HarnessErr ==
    /\ proc.pc = "err_arm"
    /\ proc' = IF ErrArmExits(proc.app)
               THEN [proc EXCEPT !.pc = "done", !.stderr = TRUE, !.status = 1]
               ELSE [proc EXCEPT !.pc = "end", !.stderr = TRUE]
    /\ UNCHANGED <<toks, eof, alphabet, stack, result, peer, scan>>

\* main returns (with Ok(()) where it returns a Result): status 0
HarnessEnd ==
    /\ proc.pc = "end"
    /\ proc' = [proc EXCEPT !.pc = "done", !.status = 0]
    /\ UNCHANGED <<toks, eof, alphabet, stack, result, peer, scan>>

\* a harness started with or without a file argument, on a readable or
\* unreadable file, whose text its backend accepts or rejects
InitHarness ==
    /\ toks = <<>> /\ eof = FALSE /\ alphabet = {} /\ stack = <<>> /\ result = NoResult
    /\ peer = NoPeer /\ scan = NoScan
    /\ proc \in [app : Apps, pc : {"args"}, arg : BOOLEAN, readable : BOOLEAN,
                 outcome : {"Ok", "Err"}, stderr : {FALSE}, status : {-1}]

NextHarness ==
    HarnessArgs \/ HarnessRead \/ HarnessPanic \/ HarnessParse \/ HarnessOk
    \/ HarnessErr \/ HarnessEnd

SpecHarness == InitHarness /\ [][NextHarness]_vars

\* the backend of the harness has run
Parsed == proc.arg /\ proc.readable

\* C13: every harness whose backend returned an error has, once terminated,
\* printed the error and exited with a non-zero status; it exits with
\* status zero only when parsing succeeded.
C13_ExitStatus ==
    (proc.pc = "done" /\ Parsed) =>
        /\ proc.outcome = "Err" => (proc.stderr /\ proc.status # 0)
        /\ proc.status = 0 => proc.outcome = "Ok"

(***************************************************************************)
(* The tokenizer derived from the Token enum: one call of lexer.next() on  *)
(* the characters of the source, read one at a time.  Characters are named *)
(* by themselves, the white ones and the end of the source by a name.      *)
(* The scans of keywords and numbers are not modelled: the character at    *)
(* the start of an item is drawn from StartChars.                          *)
(***************************************************************************)
QUOTE == "\""
BSL == "\\"

\* SkipChars without the form feed
SkipChars_NoFormFeed == {"SP", "TAB", "CR", "LF"}

\* #[logos(skip r"[ \t\r\n\f]+")]
SkipChars == {"SP", "TAB", "CR", "LF", "FF"}

\* the #[token] patterns of one character
PunctChars == {"{", "}", "[", "]", ":", ","}

PunctKind(c) ==
    CASE c = "{" -> "BraceOpen"   [] c = "}" -> "BraceClose"
      [] c = "[" -> "BracketOpen" [] c = "]" -> "BracketClose"
      [] c = ":" -> "Colon"       [] c = "," -> "Comma"

\* ["\\bnfrt] and [a-fA-F0-9] of the String pattern
EscChars == {QUOTE, BSL, "b", "n", "f", "r", "t"}
HexChars ==
    {"0", "1", "2", "3", "4", "5", "6", "7", "8", "9",
     "a", "b", "c", "d", "e", "f", "A", "B", "C", "D", "E", "F"}

\* the characters the source has at the start of an item and inside a string
StartChars ==
    {"SP", "TAB", "CR", "LF", "FF", "VT"} \cup PunctChars \cup {QUOTE, BSL, "u", "@"}
StringChars == {QUOTE, BSL, "u", "n", "0"}

\* the automaton of "([^"\\]|\\["\\bnfrt]|u[a-fA-F0-9]{4})*" after the
\* opening quote: the positions reached from position q by character c.
\* At "body" an alternative starts or the closing quote is read; the third
\* alternative starts with u, not with a backslash.
StringStep(q, c) ==
    CASE q = "body" ->
            (IF c \notin {QUOTE, BSL} THEN {"body"} ELSE {})
            \cup (IF c = BSL THEN {"esc"} ELSE {})
            \cup (IF c = "u" THEN {"hex4"} ELSE {})
            \cup (IF c = QUOTE THEN {"end"} ELSE {})
      [] q = "esc"  -> IF c \in EscChars THEN {"body"} ELSE {}
      [] q = "hex4" -> IF c \in HexChars THEN {"hex3"} ELSE {}
      [] q = "hex3" -> IF c \in HexChars THEN {"hex2"} ELSE {}
      [] q = "hex2" -> IF c \in HexChars THEN {"hex1"} ELSE {}
      [] q = "hex1" -> IF c \in HexChars THEN {"body"} ELSE {}
      [] OTHER -> {}

StringSteps(qs, c) == UNION { StringStep(q, c) : q \in qs }

\* lexer.next() at the start of an item: a skipped character moves the
\* start of the item, '"' enters the String pattern, a one-character token
\* is complete, the end of the source gives None, anything else no pattern
\* can begin is a lexical failure
ScanStart ==
    /\ scan.out = "" /\ scan.nfa = {}
    /\ \E c \in StartChars \cup {"EOF"} :
        /\ c \in SkipChars => scan.start < MaxSkip
        /\ scan' =
            IF c = "EOF" THEN [scan EXCEPT !.out = "None", !.last = c, !.skipped = FALSE]
            ELSE IF c \in SkipChars
            THEN [scan EXCEPT !.start = @ + 1, !.last = c, !.skipped = TRUE]
            ELSE IF c = QUOTE
            THEN [scan EXCEPT !.slice = <<c>>, !.nfa = {"body"}, !.last = c,
                              !.skipped = FALSE]
            ELSE [scan EXCEPT !.slice = <<c>>, !.last = c, !.skipped = FALSE,
                              !.out = IF c \in PunctChars THEN PunctKind(c) ELSE "Error"]
    /\ UNCHANGED <<toks, eof, alphabet, stack, result, peer, proc>>

\* lexer.next() inside the String pattern: the closing quote completes the
\* token, a character (or the end of the source) no position accepts is a
\* lexical failure
ScanString ==
    /\ scan.out = "" /\ scan.nfa # {}
    /\ \E c \in StringChars \cup {"EOF"} :
        /\ c # "EOF" => Len(scan.slice) < MaxText
        /\ LET n == IF c = "EOF" THEN {} ELSE StringSteps(scan.nfa, c)
           IN  scan' = [scan EXCEPT
                   !.slice = IF c = "EOF" THEN @ ELSE Append(@, c),
                   !.nfa = IF "end" \in n THEN {} ELSE n,
                   !.out = IF "end" \in n THEN "String"
                           ELSE IF n = {} THEN "Error" ELSE "",
                   !.last = c]
    /\ UNCHANGED <<toks, eof, alphabet, stack, result, peer, proc>>

InitLexer ==
    /\ toks = <<>> /\ eof = FALSE /\ alphabet = {} /\ stack = <<>> /\ result = NoResult
    /\ peer = NoPeer /\ proc = NoProc
    /\ scan = NoScan

NextLexer == ScanStart \/ ScanString

SpecLexer == InitLexer /\ [][NextLexer]_vars

\* The String pattern as the claim reads it: the third alternative is a
\* backslash followed by u and four hexadecimal digits.
ClaimStep(q, c) ==
    CASE q = "body" ->
            (IF c \notin {QUOTE, BSL} THEN {"body"} ELSE {})
            \cup (IF c = BSL THEN {"esc"} ELSE {})
            \cup (IF c = QUOTE THEN {"end"} ELSE {})
      [] q = "esc"  -> IF c \in EscChars THEN {"body"}
                       ELSE IF c = "u" THEN {"hex4"} ELSE {}
      [] q = "hex4" -> IF c \in HexChars THEN {"hex3"} ELSE {}
      [] q = "hex3" -> IF c \in HexChars THEN {"hex2"} ELSE {}
      [] q = "hex2" -> IF c \in HexChars THEN {"hex1"} ELSE {}
      [] q = "hex1" -> IF c \in HexChars THEN {"body"} ELSE {}
      [] OTHER -> {}

\* the positions of that pattern after the first m characters of w, w
\* starting with the opening quote
RECURSIVE ClaimRun(_, _)
ClaimRun(w, m) ==
    IF m <= 1 THEN {"body"}
    ELSE UNION { ClaimStep(q, w[m]) : q \in ClaimRun(w, m - 1) }

InString == scan.slice # <<>> /\ scan.slice[1] = QUOTE /\ scan.last # "EOF"

\* C14: of the texts starting with '"', the tokenizer yields a String token
\* exactly on those whose body is a sequence of plain characters, simple
\* escapes and backslash-u-four-hex-digits escapes, and fails exactly where
\* no such text can continue.
C14_StringToken ==
    InString =>
        /\ scan.out = "String" <=> "end" \in ClaimRun(scan.slice, Len(scan.slice))
        /\ scan.out = "Error" <=> ClaimRun(scan.slice, Len(scan.slice)) = {}

\* the characters at which a token pattern can begin
CanBegin(c) ==
    c \in PunctChars \cup {QUOTE, "t", "f", "n", "-"}
          \cup {"0", "1", "2", "3", "4", "5", "6", "7", "8", "9"}

\* the last character was read at the start of an item
AtStart == scan.last \notin {"", "EOF"} /\ Len(scan.slice) <= 1

\* the claim's statement of C15: the skipped characters are exactly space,
\* tab, carriage return and newline
C15_Original ==
    AtStart =>
        /\ scan.skipped <=> scan.last \in {"SP", "TAB", "CR", "LF"}
        /\ (scan.last \notin {"SP", "TAB", "CR", "LF"} /\ ~CanBegin(scan.last))
               => scan.out = "Error"

\* C15: the characters skipped between tokens without producing a token
\* are exactly space, tab, carriage return, newline and form feed; every
\* other character that cannot begin a token yields a lexical failure.
C15_Skipped ==
    AtStart =>
        /\ scan.skipped <=> scan.last \in {"SP", "TAB", "CR", "LF", "FF"}
        /\ (scan.last \notin {"SP", "TAB", "CR", "LF", "FF"} /\ ~CanBegin(scan.last))
               => scan.out = "Error"
        /\ scan.skipped => scan.out = "" /\ scan.slice = <<>>

\* a form feed skipped after another skipped character
C15_Witness == AtStart /\ scan.last = "FF" /\ scan.skipped /\ scan.start >= 2

\* a parse run alone, in configuration c, on its lexer returning t with the
\* span sp; a parse that has returned pulls nothing more
StepAlone(c, t, sp) == IF c.stack = <<>> THEN c ELSE Handle(c.stack, t, sp)

\* the configuration a parse run alone reaches on the first m items of s
RECURSIVE RunAlone(_, _)
RunAlone(s, m) ==
    IF m = 0 THEN Conf(<<Frame("parse_value", <<0, 0>>)>>, NoResult)
    ELSE StepAlone(RunAlone(s, m - 1), s[m], LexerSpan(SubSeq(s, 1, m), FALSE))

\* ... and once its lexer has returned None after them, if it has (e)
Alone(s, e) ==
    IF e THEN StepAlone(RunAlone(s, Len(s)), None, LexerSpan(s, TRUE))
    ELSE RunAlone(s, Len(s))

\* C16: under every interleaving of the pulls of two parses, each parse is
\* at every moment in the configuration (frames and result) it reaches when
\* run alone on the items its own lexer has yielded; so each ends with the
\* result of its run alone, and no step of one changes state of the other.
C16_State ==
    /\ Conf(stack, result) = Alone(toks, eof)
    /\ Conf(peer.stack, peer.result) = Alone(peer.toks, peer.eof)

C16_Step ==
    \/ peer' = peer
    \/ <<toks, eof, stack, result>>' = <<toks, eof, stack, result>>

C16_Independent == [](C16_State) /\ [][C16_Step]_vars

\* both parses done on different sources with different outcomes, the
\* second having finished first
C16_Witness ==
    /\ result.st = "Ok" /\ peer.result.st = "Err" /\ N >= 3 /\ Len(peer.toks) >= 3
    /\ toks # peer.toks /\ Kind(toks, 1) = Kind(peer.toks, 1)

====
